---- MODULE Spec2Model ----
(***************************************************************************)
(* A model of doc-gen-app's two stateful subsystems:                       *)
(*                                                                         *)
(*  - the redaction sessions of src/services/redactionService.js, kept in  *)
(*    a node-cache instance (stdTTL 3600, default useClones) and driven    *)
(*    by the routes of routes/redaction.js;                                *)
(*  - the multipart upload protocol of services/fileService.js over the    *)
(*    three provider adapters (gcp, aws, azure).                           *)
(*                                                                         *)
(* Node runs every handler on one thread: a handler runs without           *)
(* interruption up to an await that waits for a timer or for I/O, and      *)
(* other requests run while it waits.  Each action below is one such       *)
(* uninterrupted stretch of a handler.                                     *)
(***************************************************************************)
EXTENDS Integers, Sequences, FiniteSets, TLC

(***************************************************************************)
(* Bounds of the model.                                                    *)
(***************************************************************************)
MaxSessions == 1      \* sessions prepare may create
MaxCalls == 2         \* requests of the redaction routes in flight at once
MaxTicks == 2         \* times the clock advances
MaxPages == 2         \* pages of a prepared document
MaxUploads == 2       \* multipart uploads a caller starts
MaxParts == 2         \* parts of a multipart payload
MaxReqs == 2          \* provider calls of the multipart routes in flight at once

(***************************************************************************)
(* Program constants.                                                      *)
(***************************************************************************)
\* new NodeCache({ stdTTL: 3600 }): seconds an entry lives after it is set.
stdTTL == 3600

\* JavaScript Numbers are modelled in fixed point, Scale units to 1.0, so
\* that the fractions convertCoordinate accepts (0.25, 0.5) are integers.
Scale == 100

VARIABLES
    \* ---- redaction sessions ----
    now,          \* Date.now(), in seconds
    ticks,        \* how often the clock has advanced
    cache,        \* sessionCache: session id -> NoEntry or [t, v]
    nextSid,      \* the next session id generateSessionId returns
    calls,        \* the apply and cleanup requests: slot -> its position and locals
    lastAccess,   \* history: session id -> time of the last get that found it, or set
    lastWrite,    \* history: session id -> time of the last set of its key
    deleted,      \* history: session ids deleted since their last set
    cleaned,      \* history: session ids for which a cleanup has returned
    \* ---- multipart uploads ----
    objects,      \* the providers' stores: platform -> key -> NoObject or the object
    staged,       \* azure: key -> the blob's uncommitted blocks
    attempts,     \* the callers' uploads: number -> NoAttempt or what the caller holds,
                  \* with the order in which its parts were acknowledged
    nextUpload,   \* the number of the next upload
    reqs,         \* the provider calls awaited: slot -> the call and its arguments
    lastComplete, \* the complete that has just returned and its outcome, if the
                  \* last step was a complete returning
    \* ---- the routes' answers ----
    lastResponse, \* history: the last answer a route gave without calling on
                  \* to an awaiting service call, with the cache before and after
    \* ---- listing ----
    remote,       \* the listed bucket on each platform: the names of its objects
    listing,      \* the listFiles request: its position, locals and outcome
    \* ---- helpers called on their own ----
    resolved,     \* the last call of convertCoordinate: arguments and result
    \* ---- the provider clients and the calls of the file service ----
    env,          \* process.env: the credentials the process was started with
    clients,      \* CloudServiceManager: platform -> its storage client is set
    started,      \* whether initialize has run, and how it ended
    lastCall      \* the last call of a FileService method and its outcome

redactVars == <<now, ticks, cache, nextSid, calls, lastAccess, lastWrite,
                deleted, cleaned>>

uploadVars == <<objects, staged, attempts, nextUpload, reqs, lastComplete>>

routeVars == <<lastResponse>>

listVars == <<remote, listing>>

coordVars == <<resolved>>

cloudVars == <<env, clients, started, lastCall>>

vars == <<redactVars, uploadVars, routeVars, listVars, coordVars, cloudVars>>

(***************************************************************************)
(* Values.                                                                 *)
(***************************************************************************)
NoEntry == [present |-> FALSE]
\* A field an object does not have.
Undefined == "undefined"
NotFoundOrExpired == "Redaction session not found or expired"
NoResponse == [route |-> "none"]

\* convertCoordinate has not been called.
NotResolved == [called |-> FALSE]

\* No listFiles request has been made.
NotListing == [pc |-> "idle"]

SessionIds == 1..MaxSessions
CallIds == 1..MaxCalls

\* Amounts the clock advances by: a minute, 59 minutes.
TickSteps == {60, 59 * 60}

\* The page size of the model's documents (points, in fixed point).
PageSize == [width |-> 600 * Scale, height |-> 800 * Scale]

\* A decoded document (a PDFDocument) is its page count and the rectangles
\* drawn on it, in order; its encoding is the bytes that decode to it.
\* pdfDoc.save(): the bytes of the decoded document.
PDFSave(pdfDoc) == [bytesOf |-> pdfDoc]

\* PDFDocument.load(buffer): a fresh decoded copy of the stored bytes.
PDFLoad(buffer) == buffer.bytesOf

\* The files a bucket holds: valid PDFs of 1..MaxPages pages, nothing drawn.
Documents == {PDFSave([pageCount |-> n, drawn |-> <<>>]) : n \in 1..MaxPages}

\* A file of the bucket that is not a PDF, and all the files prepare can be
\* pointed at.
NotAPdf == [text |-> "plain text"]
BucketFiles == Documents \cup {NotAPdf}

\* PDFDocument.load(buffer) resolves for bytes that encode a document and
\* rejects for others.
IsPDF(buffer) == "bytesOf" \in DOMAIN buffer
DecodeError == "Failed to parse PDF document"

\* The rectangles a caller sends: a fraction-mode one, an absolute-mode one
\* and one on page MaxPages (missing from shorter documents).
RectA == [pageNumber |-> 1, x |-> 50, y |-> 0, width |-> 25, height |-> 50]
RectB == [pageNumber |-> 1, x |-> 300 * Scale, y |-> 100 * Scale,
          width |-> 150 * Scale, height |-> 20 * Scale]
RectC == [pageNumber |-> MaxPages, x |-> 0, y |-> 0, width |-> 100, height |-> 100]

RedactionLists == {<<RectA>>, <<RectA, RectB>>, <<RectB, RectC>>}

\* The route's default color, '#000000', as its six hex digits.
Colors == {<<0, 0, 0, 0, 0, 0>>}

(***************************************************************************)
(* node-cache.                                                             *)
(***************************************************************************)
\* _check: an entry is expired once its deadline lies before the clock.
Expired(entry, time) == entry.t < time

\* get(key): the stored value (a clone), or undefined for a key that is
\* missing or expired.  get does not move the deadline.
CacheGet(c, key, time) ==
    IF c[key].present /\ ~Expired(c[key], time) THEN c[key] ELSE NoEntry

\* A set whose entries outlive the configured TTL.
CacheSetLongLived(c, key, value, time) ==
    [c EXCEPT ![key] = [present |-> TRUE, t |-> time + 24 * stdTTL, v |-> value]]

\* set(key, value): stores a clone of value with deadline now + stdTTL,
\* whether or not the key is present.
CacheSet(c, key, value, time) ==
    [c EXCEPT ![key] = [present |-> TRUE, t |-> time + stdTTL, v |-> value]]

\* del(key)
CacheDel(c, key) == [c EXCEPT ![key] = NoEntry]

(***************************************************************************)
(* Helpers of RedactionService.                                            *)
(***************************************************************************)
\* A conversion that takes 1.0 for an absolute value.
convertCoordinateBelowOne(value, maxValue) ==
    IF value >= 0 /\ value < Scale THEN (value * maxValue) \div Scale ELSE value

\* Lines 393-401.
convertCoordinate(value, maxValue) ==
    IF value >= 0 /\ value <= Scale THEN (value * maxValue) \div Scale ELSE value

\* parseColor: the three color components, in units of 1/255.
parseColor(hex) ==
    <<hex[1] * 16 + hex[2], hex[3] * 16 + hex[4], hex[5] * 16 + hex[6]>>

\* pdfDoc.getPages()[pageIndex] is defined
HasPage(pdfDoc, pageNumber) == pageNumber - 1 >= 0 /\ pageNumber - 1 < pdfDoc.pageCount

\* The rectangle applyRedactionToPage hands to page.drawRectangle.
DrawnRect(redaction, color) ==
    LET x == convertCoordinate(redaction.x, PageSize.width)
        y == convertCoordinate(redaction.y, PageSize.height)
        width == convertCoordinate(redaction.width, PageSize.width)
        height == convertCoordinate(redaction.height, PageSize.height)
    IN  [pageNumber |-> redaction.pageNumber,
         x |-> x,
         y |-> PageSize.height - y - height,
         width |-> width,
         height |-> height,
         color |-> parseColor(color),
         opacity |-> Scale]

\* applyRedactionToPage on the page it found: the document with one more
\* rectangle drawn.
applyRedactionToPage(pdfDoc, redaction, color) ==
    [pdfDoc EXCEPT !.drawn = Append(@, DrawnRect(redaction, color))]

\* Lines 126-128: the loop of applyRedactions.  applyRedactionToPage throws
\* "Page n not found" for a page the document lacks, which ends the loop.
RECURSIVE PaintLoop(_, _, _)
PaintLoop(pdfDoc, redactions, color) ==
    IF redactions = <<>> THEN [ok |-> TRUE, pdfDoc |-> pdfDoc]
    ELSE IF ~HasPage(pdfDoc, Head(redactions).pageNumber)
         THEN [ok |-> FALSE, pdfDoc |-> pdfDoc]
         ELSE PaintLoop(applyRedactionToPage(pdfDoc, Head(redactions), color),
                        Tail(redactions), color)

Idle == [pc |-> "idle"]

(***************************************************************************)
(* Values of the multipart uploads.                                        *)
(***************************************************************************)
Platforms == {"gcp", "aws", "azure"}
Keys == {"report.pdf"}
UploadIds == 1..MaxUploads
ReqIds == 1..MaxReqs
PartNumbers == 1..MaxParts

\* Into how many parts the callers split a payload.
PartCounts == {MaxParts}

\* The payloads the callers split into parts: upload u sends n parts, and
\* every part of every upload has bytes of its own, so that an object tells
\* which parts it is made of and in which order.
PartBytes(u, i) == <<[upload |-> u, part |-> i]>>
Payload(u, n) == [i \in 1..n |-> PartBytes(u, i)]

\* The buffers the callers upload in one piece.
Buffers == {<<"x", "y">>}

NoObject == [present |-> FALSE]
NoAttempt == [status |-> "none"]
NotCalled == [called |-> FALSE]

\* What a call that fails throws.
NoError == "none"
NotAFunction == "TypeError: s3.completeMultipartUpload is not a function"
InvalidBlockList == "RestError: InvalidBlockList"

\* The bytes of a list of buffers, one after the other.
RECURSIVE Flatten(_)
Flatten(buffers) ==
    IF buffers = <<>> THEN <<>> ELSE Head(buffers) \o Flatten(Tail(buffers))

\* The bytes of a stored object; none for a key that holds no object.
NoBytes == <<"no object">>
Content(object) == IF object.present THEN object.content ELSE NoBytes

\* An object written in one piece.
Blob(buffer) == [present |-> TRUE, content |-> buffer, blocks |-> {}]

(***************************************************************************)
(* The provider clients.                                                   *)
(***************************************************************************)
\* getAWSS3() returns the S3Client that initializeAWS built with
\* new S3Client(awsConfig).  The bare client of @aws-sdk/client-s3 has
\* send() and destroy(); the operations fileService.js calls on it
\* (upload, createMultipartUpload, uploadPart, completeMultipartUpload, ...)
\* are not members of it.
S3ClientMethods == {"send", "destroy"}

\* s3.method(params): calling a member that is undefined throws a TypeError.
S3Has(method) == method \in S3ClientMethods

\* Azure block blobs.  stageBlock(blockId, ...) puts an uncommitted block on
\* the blob, replacing an uncommitted block of the same id.
StageBlock(uncommitted, blockId, data) ==
    {b \in uncommitted : b.id # blockId} \cup {[id |-> blockId, data |-> data]}

HasBlock(blocks, blockId) == \E b \in blocks : b.id = blockId
BlockData(blocks, blockId) == (CHOOSE b \in blocks : b.id = blockId).data

\* commitBlockList(ids) sends every id as "latest": the uncommitted block of
\* that id, or else the committed one.
LatestBlock(uncommitted, committed, blockId) ==
    IF HasBlock(uncommitted, blockId)
    THEN BlockData(uncommitted, blockId)
    ELSE BlockData(committed, blockId)

\* The service refuses a list that names a block it does not hold.
CommitAccepted(uncommitted, committed, blockIds) ==
    \A i \in 1..Len(blockIds) :
        HasBlock(uncommitted, blockIds[i]) \/ HasBlock(committed, blockIds[i])

\* The blob a commit makes: the listed blocks in the order listed.
CommittedBlob(uncommitted, committed, blockIds) ==
    LET data == [i \in 1..Len(blockIds) |->
                    LatestBlock(uncommitted, committed, blockIds[i])]
    IN  [present |-> TRUE,
         content |-> Flatten(data),
         blocks |-> {[id |-> blockIds[i], data |-> data[i]] : i \in 1..Len(blockIds)}]

(***************************************************************************)
(* Helpers of FileService.                                                 *)
(***************************************************************************)
\* partNumber.toString(): the decimal digits.
RECURSIVE Digits(_)
Digits(n) == IF n < 10 THEN <<n>> ELSE Append(Digits(n \div 10), n % 10)

\* str.padStart(targetLength, pad)
RECURSIVE padStart(_, _, _)
padStart(str, targetLength, pad) ==
    IF Len(str) >= targetLength THEN str
    ELSE padStart(<<pad>> \o str, targetLength, pad)

\* Buffer.from(str).toString('base64'): an encoding that tells strings apart.
Base64(str) == [base64 |-> str]

\* A block id that loses the last digit of the part number.
BlockIdTruncated(partNumber) == Base64(padStart(Digits(partNumber \div 10), 6, 0))

\* uploadAzureBlock, "Generate block ID".
BlockId(partNumber) == Base64(padStart(Digits(partNumber), 6, 0))

\* uploadGCPChunk's return value, `gcp_chunk_${partNumber}_${uploadId}`.
GcpChunkToken(partNumber, uploadId) == [gcp_chunk |-> partNumber, uploadId |-> uploadId]

\* The token uploadPart answers with on a platform that answers.
PartToken(platform, uploadId, partNumber) ==
    IF platform = "gcp" THEN GcpChunkToken(partNumber, uploadId) ELSE BlockId(partNumber)

\* A list that echoes a token under another part number: the first part
\* with the token of the last one.  Only azure's tokens can be told from
\* the part numbers they were given for.
CrossedLists(platform, uploadId) ==
    IF platform = "azure"
    THEN {<<[partNumber |-> 1, etag |-> PartToken(platform, uploadId, MaxParts)]>>}
    ELSE {}

\* The part lists a caller may send to complete: any parts in any order,
\* each with the token uploadPart gives for it, and the crossed list.
PartLists(platform, uploadId) ==
    UNION {[1..n -> {[partNumber |-> pn, etag |-> PartToken(platform, uploadId, pn)] :
                        pn \in PartNumbers}] : n \in 1..MaxParts}
    \cup CrossedLists(platform, uploadId)

\* Block ids made anew from the part numbers of the list.
BlockIdsRegenerated(parts) == [i \in 1..Len(parts) |-> BlockId(parts[i].partNumber)]

\* completeAzureBlockUpload: parts.map(part => part.etag)
BlockIdsOf(parts) == [i \in 1..Len(parts) |-> parts[i].etag]

\* The part numbers uploadPart has acknowledged to an upload.
AckedNumbers(attempt) == {a.partNumber : a \in attempt.acked}

\* A new request takes the first free slot (the slots are interchangeable).
FreeSlot(cs, c) == cs[c].pc = "idle" /\ \A d \in 1..(c - 1) : cs[d].pc # "idle"

(***************************************************************************)
(* CloudServiceManager.                                                    *)
(***************************************************************************)
\* What process.env holds for a provider: nothing, credentials the
\* provider's client can be built from, or credentials that are malformed
\* (a service account key that is not JSON, a connection string that does
\* not parse).
Credentials == {"absent", "valid", "malformed"}
Environments == [Platforms -> Credentials]
NoEnvironment == [p \in Platforms |-> "absent"]
NoCall == [op |-> "none"]

\* Lines 128-159.  Without a key the provider is left disabled;
\* validateServiceAccountKey throws for a malformed key and initializeGCP
\* rethrows.
initializeGCP(e) ==
    IF e["gcp"] = "absent" THEN [threw |-> FALSE, client |-> FALSE]
    ELSE IF e["gcp"] = "valid" THEN [threw |-> FALSE, client |-> TRUE]
    ELSE [threw |-> TRUE, client |-> FALSE]

\* Lines 164-185.  new S3Client(awsConfig) does not look into the strings
\* it is given.
initializeAWS(e) ==
    IF e["aws"] = "absent" THEN [threw |-> FALSE, client |-> FALSE]
    ELSE [threw |-> FALSE, client |-> TRUE]

\* Lines 190-217.  BlobServiceClient.fromConnectionString throws for a
\* string it cannot parse and initializeAzure rethrows.
initializeAzure(e) ==
    IF e["azure"] = "absent" THEN [threw |-> FALSE, client |-> FALSE]
    ELSE IF e["azure"] = "valid" THEN [threw |-> FALSE, client |-> TRUE]
    ELSE [threw |-> TRUE, client |-> FALSE]

\* Lines 113-122: the three initialisations one after the other in one try;
\* the first that throws ends the block, and the catch logs and returns.
InitializedClients(e) ==
    IF initializeGCP(e).threw
    THEN [p \in Platforms |-> FALSE]
    ELSE [p \in Platforms |->
             CASE p = "gcp" -> initializeGCP(e).client
               [] p = "aws" -> initializeAWS(e).client
               [] p = "azure" -> initializeAzure(e).client]

(***************************************************************************)
(* Init: an empty cache, no request in flight.                             *)
(***************************************************************************)
Init ==
    /\ now = 0
    /\ ticks = 0
    /\ cache = [s \in SessionIds |-> NoEntry]
    /\ nextSid = 1
    /\ calls = [c \in CallIds |-> Idle]
    /\ lastAccess = [s \in SessionIds |-> 0]
    /\ lastWrite = [s \in SessionIds |-> 0]
    /\ deleted = {}
    /\ cleaned = {}
    /\ objects = [p \in Platforms |-> [k \in Keys |-> NoObject]]
    /\ staged = [k \in Keys |-> {}]
    /\ attempts = [u \in UploadIds |-> NoAttempt]
    /\ nextUpload = 1
    /\ reqs = [r \in ReqIds |-> Idle]
    /\ lastComplete = NotCalled
    /\ lastResponse = NoResponse
    /\ remote = [p \in Platforms |-> {}]
    /\ listing = NotListing
    /\ resolved = NotResolved
    /\ env = NoEnvironment
    /\ clients = [p \in Platforms |-> FALSE]
    /\ started = "no"
    /\ lastCall = NoCall

\* Session ids that prepare has handed out.
Issued == 1..(nextSid - 1)

(***************************************************************************)
(* Time passes.                                                            *)
(***************************************************************************)
Tick ==
    /\ UNCHANGED <<uploadVars, routeVars, listVars, coordVars, cloudVars>>
    /\ ticks < MaxTicks
    /\ \E d \in TickSteps : now' = now + d
    /\ ticks' = ticks + 1
    /\ UNCHANGED <<cache, nextSid, calls, lastAccess, lastWrite, deleted, cleaned>>

(***************************************************************************)
(* preparePDFForRedaction: the download and the decoding touch no shared   *)
(* state; the session enters the cache in one step at sessionCache.set.    *)
(***************************************************************************)
\* What prepare keeps in the store for a document, or for bytes it could not
\* decode.
PreparedSession(buffer, time) ==
    [sessionId |-> nextSid,
     pdfBuffer |-> buffer,
     pageCount |-> IF IsPDF(buffer) THEN PDFLoad(buffer).pageCount ELSE 0,
     createdAt |-> time,
     redactedAt |-> Undefined,
     redactions |-> <<>>]

\* Lines 36-103 with the route's answer (part_002 lines 48-75).  The bytes
\* come from the bucket.  PDFDocument.load throws for bytes that are not a
\* PDF, before line 79 is reached: the error is rethrown and the route
\* answers 500.  Otherwise the session is stored and the route answers with
\* its id.  storeFirst is FALSE in the service: nothing is stored before
\* the document has been decoded.
PrepareStep(storeFirst) ==
    /\ UNCHANGED <<uploadVars, listVars, coordVars, cloudVars>>
    /\ nextSid <= MaxSessions
    /\ \E buffer \in BucketFiles :
         IF IsPDF(buffer)
         THEN /\ cache' = CacheSet(cache, nextSid, PreparedSession(buffer, now), now)
              /\ lastResponse' = [route |-> "prepare", status |-> 200,
                                  buffer |-> buffer,
                                  before |-> cache, after |-> cache']
              /\ lastAccess' = [lastAccess EXCEPT ![nextSid] = now]
              /\ lastWrite' = [lastWrite EXCEPT ![nextSid] = now]
              /\ nextSid' = nextSid + 1
         ELSE /\ cache' = IF storeFirst
                          THEN CacheSet(cache, nextSid, PreparedSession(buffer, now), now)
                          ELSE cache
              /\ lastResponse' = [route |-> "prepare", status |-> 500,
                                  message |-> DecodeError, buffer |-> buffer,
                                  before |-> cache, after |-> cache']
              /\ UNCHANGED <<lastAccess, lastWrite, nextSid>>
    /\ UNCHANGED <<now, ticks, calls, deleted, cleaned>>

\* A prepare that stores the session before it decodes the bytes.
PrepareStoringFirst == PrepareStep(TRUE)

Prepare == PrepareStep(FALSE)

(***************************************************************************)
(* applyRedactions.                                                        *)
(***************************************************************************)
\* Lines 110-123: the lookup, then the await of PDFDocument.load.
ApplyStart(c, sid, redactions, color) ==
    /\ UNCHANGED <<uploadVars, routeVars, listVars, coordVars, cloudVars>>
    /\ FreeSlot(calls, c)
    /\ LET entry == CacheGet(cache, sid, now)
           seen == [idle |-> now - lastAccess[sid], age |-> now - lastWrite[sid],
                    deleted |-> sid \in deleted]
       IN  IF ~entry.present
           THEN calls' = [calls EXCEPT ![c] =
                    [pc |-> "failed", op |-> "apply", sid |-> sid,
                     redactions |-> redactions, color |-> color,
                     seen |-> seen, error |-> NotFoundOrExpired]]
           ELSE calls' = [calls EXCEPT ![c] =
                    [pc |-> "load", op |-> "apply", sid |-> sid,
                     redactions |-> redactions, color |-> color,
                     seen |-> seen, sessionData |-> entry.v]]
    /\ lastAccess' = IF CacheGet(cache, sid, now).present
                     THEN [lastAccess EXCEPT ![sid] = now]
                     ELSE lastAccess
    /\ UNCHANGED <<now, ticks, cache, nextSid, lastWrite, deleted, cleaned>>

\* An apply that, when a page is missing, keeps in the session what it had
\* painted up to the failure.
ApplyPaintKeepingPartial(c) ==
    /\ UNCHANGED <<uploadVars, routeVars, listVars, coordVars, cloudVars>>
    /\ calls[c].pc = "load"
    /\ LET call == calls[c]
           painted == PaintLoop(PDFLoad(call.sessionData.pdfBuffer),
                                call.redactions, call.color)
       IN  IF painted.ok
           THEN /\ calls' = [calls EXCEPT ![c] =
                    [pc |-> "save", op |-> "apply", sid |-> call.sid,
                     redactions |-> call.redactions, color |-> call.color,
                     sessionData |-> call.sessionData, pdfDoc |-> painted.pdfDoc]]
                /\ UNCHANGED cache
           ELSE /\ calls' = [calls EXCEPT ![c] =
                    [pc |-> "failed", op |-> "apply", sid |-> call.sid,
                     redactions |-> call.redactions, color |-> call.color,
                     error |-> "Page not found"]]
                /\ cache' = CacheSet(cache, call.sid,
                        [call.sessionData EXCEPT !.pdfBuffer = PDFSave(painted.pdfDoc)],
                        now)
    /\ UNCHANGED <<now, ticks, nextSid, lastAccess, lastWrite, deleted, cleaned>>

\* Lines 123-131: PDFDocument.load has resolved and the call has its own
\* decoded document.  The loop over the redactions awaits only
\* applyRedactionToPage, which waits for nothing, so no other request runs
\* before the loop ends: either a page is missing and the call throws, or
\* the call goes on to await pdfDoc.save().
ApplyPaint(c) ==
    /\ UNCHANGED <<uploadVars, routeVars, listVars, coordVars, cloudVars>>
    /\ calls[c].pc = "load"
    /\ LET call == calls[c]
           painted == PaintLoop(PDFLoad(call.sessionData.pdfBuffer),
                                call.redactions, call.color)
       IN  IF painted.ok
           THEN calls' = [calls EXCEPT ![c] =
                    [pc |-> "save", op |-> "apply", sid |-> call.sid,
                     redactions |-> call.redactions, color |-> call.color,
                     sessionData |-> call.sessionData, pdfDoc |-> painted.pdfDoc]]
           ELSE calls' = [calls EXCEPT ![c] =
                    [pc |-> "failed", op |-> "apply", sid |-> call.sid,
                     redactions |-> call.redactions, color |-> call.color,
                     error |-> "Page not found"]]
    /\ UNCHANGED <<now, ticks, cache, nextSid, lastAccess, lastWrite, deleted, cleaned>>

\* A write-back that keeps the redacted bytes as the session's document.
WriteBackRedacted(call, time) ==
    [call.sessionData EXCEPT !.pdfBuffer = PDFSave(call.pdfDoc),
                             !.redactions = call.redactions, !.redactedAt = time]

\* A write-back that appends the call's rectangles to the list the session
\* already had.
WriteBackMerged(call, time) ==
    [call.sessionData EXCEPT
        !.redactions = call.sessionData.redactions \o call.redactions,
        !.redactedAt = time]

\* What lines 134-137 write back: the call's copy of the session with its
\* redaction list replaced and redactedAt stamped.
WriteBack(call, time) ==
    [call.sessionData EXCEPT !.redactions = call.redactions, !.redactedAt = time]

\* Lines 132-153: save has resolved; the session is written back and the
\* result returned.
ApplyFinish(c) ==
    /\ UNCHANGED <<uploadVars, routeVars, listVars, coordVars, cloudVars>>
    /\ calls[c].pc = "save"
    /\ LET call == calls[c]
           redactedPdfBytes == PDFSave(call.pdfDoc)
       IN  /\ cache' = CacheSet(cache, call.sid, WriteBack(call, now), now)
           /\ calls' = [calls EXCEPT ![c] =
                    [pc |-> "done", op |-> "apply", sid |-> call.sid,
                     redactions |-> call.redactions, color |-> call.color,
                     result |-> [redactedPdf |-> redactedPdfBytes,
                                 original |-> call.sessionData.pdfBuffer]]]
           /\ lastAccess' = [lastAccess EXCEPT ![call.sid] = now]
           /\ lastWrite' = [lastWrite EXCEPT ![call.sid] = now]
           /\ deleted' = deleted \ {call.sid}
    /\ UNCHANGED <<now, ticks, nextSid, cleaned>>

(***************************************************************************)
(* cleanupSession.                                                         *)
(***************************************************************************)
\* Lines 345-352: the lookup and the delete, then the await of
\* cleanupTempFiles; a session that is not found is left alone and the call
\* returns at once.
CleanupStart(c, sid) ==
    /\ UNCHANGED <<uploadVars, routeVars, listVars, coordVars, cloudVars>>
    /\ FreeSlot(calls, c)
    /\ LET entry == CacheGet(cache, sid, now)
       IN  IF entry.present
           THEN /\ cache' = CacheDel(cache, sid)
                /\ deleted' = deleted \cup {sid}
                /\ calls' = [calls EXCEPT ![c] =
                       [pc |-> "rmdir", op |-> "cleanup", sid |-> sid]]
                /\ UNCHANGED cleaned
           ELSE /\ calls' = [calls EXCEPT ![c] =
                       [pc |-> "done", op |-> "cleanup", sid |-> sid]]
                /\ cleaned' = cleaned \cup {sid}
                /\ UNCHANGED <<cache, deleted>>
    /\ lastAccess' = IF CacheGet(cache, sid, now).present
                     THEN [lastAccess EXCEPT ![sid] = now]
                     ELSE lastAccess
    /\ UNCHANGED <<now, ticks, nextSid, lastWrite>>

\* Lines 352-355: the temporary files are gone and the call returns.
CleanupFinish(c) ==
    /\ UNCHANGED <<uploadVars, routeVars, listVars, coordVars, cloudVars>>
    /\ calls[c].pc = "rmdir"
    /\ calls' = [calls EXCEPT ![c].pc = "done"]
    /\ cleaned' = cleaned \cup {calls[c].sid}
    /\ UNCHANGED <<now, ticks, cache, nextSid, lastAccess, lastWrite, deleted>>

\* The route answers (res.json / res.status(500)) and the request is over.
Respond(c) ==
    /\ UNCHANGED <<uploadVars, routeVars, listVars, coordVars, cloudVars>>
    /\ calls[c].pc \in {"done", "failed"}
    /\ calls' = [calls EXCEPT ![c] = Idle]
    /\ UNCHANGED <<now, ticks, cache, nextSid, lastAccess, lastWrite, deleted, cleaned>>

(***************************************************************************)
(* The read-only operations: each is a lookup and an answer, without an    *)
(* await in between.                                                       *)
(***************************************************************************)
\* A read that restarts the hour of the entry it finds (a sliding TTL).
ReadOpSliding(op, sid) ==
    /\ UNCHANGED <<uploadVars, routeVars, listVars, coordVars, cloudVars>>
    /\ cache' = IF CacheGet(cache, sid, now).present
                THEN [cache EXCEPT ![sid].t = now + stdTTL]
                ELSE cache
    /\ lastAccess' = IF CacheGet(cache, sid, now).present
                     THEN [lastAccess EXCEPT ![sid] = now]
                     ELSE lastAccess
    /\ UNCHANGED <<now, ticks, nextSid, calls, lastWrite, deleted, cleaned>>

\* sessionCache.get(sessionId) of a read-only operation: the entry's
\* deadline stays as the last set left it.
ReadOp(op, sid) ==
    /\ UNCHANGED <<uploadVars, routeVars, listVars, coordVars, cloudVars>>
    /\ lastAccess' = IF CacheGet(cache, sid, now).present
                     THEN [lastAccess EXCEPT ![sid] = now]
                     ELSE lastAccess
    /\ UNCHANGED <<now, ticks, cache, nextSid, calls, lastWrite, deleted, cleaned>>

getSessionDetails(sid) == ReadOp("getDetails", sid)
generatePreview(sid) == ReadOp("preview", sid)
autoDetectSensitiveInfo(sid) == ReadOp("autoDetect", sid)

(***************************************************************************)
(* The redaction subsystem.                                                *)
(***************************************************************************)
NextRedact ==
    \/ Tick
    \/ Prepare
    \/ \E c \in CallIds, sid \in Issued, r \in RedactionLists, col \in Colors :
           ApplyStart(c, sid, r, col)
    \/ \E c \in CallIds : ApplyPaint(c)
    \/ \E c \in CallIds : ApplyFinish(c)
    \/ \E c \in CallIds, sid \in Issued : CleanupStart(c, sid)
    \/ \E c \in CallIds : CleanupFinish(c)
    \/ \E c \in CallIds : Respond(c)
    \/ \E sid \in Issued : getSessionDetails(sid)
    \/ \E sid \in Issued : generatePreview(sid)
    \/ \E sid \in Issued : autoDetectSensitiveInfo(sid)

SpecRedact == Init /\ [][NextRedact]_vars

(***************************************************************************)
(* FileService: the single-shot upload.                                    *)
(***************************************************************************)
\* uploadFile: gcp writes the object through a stream; aws throws at
\* s3.upload; azure's upload() writes the blob in one piece, which discards
\* the blob's uncommitted blocks.
uploadFile(platform, key, buffer) ==
    /\ UNCHANGED <<redactVars, routeVars, listVars, coordVars, cloudVars>>
    /\ CASE platform = "gcp" ->
               /\ objects' = [objects EXCEPT !["gcp"][key] = Blob(buffer)]
               /\ UNCHANGED staged
         [] platform = "aws" ->
               /\ IF S3Has("upload")
                  THEN objects' = [objects EXCEPT !["aws"][key] = Blob(buffer)]
                  ELSE UNCHANGED objects
               /\ UNCHANGED staged
         [] platform = "azure" ->
               /\ objects' = [objects EXCEPT !["azure"][key] = Blob(buffer)]
               /\ staged' = [staged EXCEPT ![key] = {}]
    /\ lastComplete' = NotCalled
    /\ UNCHANGED <<attempts, nextUpload, reqs>>

(***************************************************************************)
(* FileService: the multipart protocol.  The service keeps nothing about   *)
(* an upload between calls: the caller sends bucket, file name, upload id  *)
(* and parts with every request.                                           *)
(***************************************************************************)
\* initiateMultipartUpload: gcp and azure make up an identifier; aws throws
\* at s3.createMultipartUpload and the caller gets no upload id.
initiateMultipartUpload(platform, key, n) ==
    /\ UNCHANGED <<redactVars, routeVars, listVars, coordVars, cloudVars>>
    /\ nextUpload <= MaxUploads
    /\ LET ok == platform # "aws" \/ S3Has("createMultipartUpload")
       IN  attempts' = [attempts EXCEPT ![nextUpload] =
               [status |-> IF ok THEN "initiated" ELSE "failed",
                platform |-> platform, key |-> key,
                payload |-> Payload(nextUpload, n),
                acked |-> {},
                order |-> <<>>]]
    /\ nextUpload' = nextUpload + 1
    /\ lastComplete' = NotCalled
    /\ UNCHANGED <<objects, staged, reqs>>

\* Part partNumber of upload u is neither acknowledged nor on its way.
PartPending(u, partNumber) ==
    /\ partNumber \notin AckedNumbers(attempts[u])
    /\ ~\E r \in ReqIds :
           reqs[r].pc = "stageBlock" /\ reqs[r].uploadId = u /\ reqs[r].partNumber = partNumber

\* uploadPart, up to the provider call.  gcp (uploadGCPChunk) returns a token
\* and keeps nothing; aws throws at s3.uploadPart; azure awaits stageBlock.
uploadPart(u, partNumber) ==
    /\ UNCHANGED <<redactVars, routeVars, listVars, coordVars, cloudVars>>
    /\ attempts[u].status = "initiated"
    /\ partNumber \in 1..Len(attempts[u].payload)
    /\ PartPending(u, partNumber)
    /\ LET a == attempts[u]
           buffer == a.payload[partNumber]
       IN  CASE a.platform = "gcp" ->
                   /\ attempts' = [attempts EXCEPT
                          ![u].acked = @ \cup
                              {[partNumber |-> partNumber,
                                etag |-> GcpChunkToken(partNumber, u)]},
                          ![u].order = Append(@, partNumber)]
                   /\ UNCHANGED reqs
             [] a.platform = "aws" ->
                   /\ attempts' = [attempts EXCEPT ![u].status =
                          IF S3Has("uploadPart") THEN @ ELSE "failed"]
                   /\ UNCHANGED reqs
             [] a.platform = "azure" ->
                   /\ \E r \in ReqIds :
                          /\ FreeSlot(reqs, r)
                          /\ reqs' = [reqs EXCEPT ![r] =
                                 [pc |-> "stageBlock", uploadId |-> u, key |-> a.key,
                                  partNumber |-> partNumber,
                                  blockId |-> BlockId(partNumber), buffer |-> buffer]]
                   /\ UNCHANGED attempts
    /\ lastComplete' = NotCalled
    /\ UNCHANGED <<objects, staged, nextUpload>>

\* uploadAzureBlock, stageBlock has resolved: the block is staged and its id
\* goes back to the caller as the part's etag.
uploadAzureBlockDone(r) ==
    /\ UNCHANGED <<redactVars, routeVars, listVars, coordVars, cloudVars>>
    /\ reqs[r].pc = "stageBlock"
    /\ staged' = [staged EXCEPT ![reqs[r].key] =
           StageBlock(@, reqs[r].blockId, reqs[r].buffer)]
    /\ attempts' = [attempts EXCEPT
           ![reqs[r].uploadId].acked = @ \cup
               {[partNumber |-> reqs[r].partNumber, etag |-> reqs[r].blockId]},
           ![reqs[r].uploadId].order = Append(@, reqs[r].partNumber)]
    /\ reqs' = [reqs EXCEPT ![r] = Idle]
    /\ lastComplete' = NotCalled
    /\ UNCHANGED <<objects, nextUpload>>

\* A complete of upload u awaits its provider call.  A caller waits for the
\* answer to one complete before it sends the same upload's next.
CompletePending(u) ==
    \E r \in ReqIds : reqs[r].pc = "commitBlockList" /\ reqs[r].uploadId = u

\* The uploads a caller sends a complete for: those it holds an upload id
\* of, and on aws, where initiate gives none, an id of its own making (the
\* route takes any uploadId string).
Completable(u) ==
    \/ attempts[u].status = "initiated"
    \/ attempts[u].status = "failed" /\ attempts[u].platform = "aws"

\* completeMultipartUpload, up to the provider call.  gcp
\* (completeGCPResumableUpload) ignores the parts and answers success; aws
\* throws at s3.completeMultipartUpload; azure awaits commitBlockList with
\* the etags of the parts in the order the caller sent them.
completeMultipartUpload(u, parts) ==
    /\ UNCHANGED <<redactVars, routeVars, listVars, coordVars, cloudVars>>
    /\ Completable(u)
    /\ ~CompletePending(u)
    /\ LET a == attempts[u]
           outcome(ok, error) ==
               [called |-> TRUE, uploadId |-> u, ok |-> ok, error |-> error,
                parts |-> parts]
       IN  CASE a.platform = "gcp" ->
                   /\ lastComplete' = outcome(TRUE, NoError)
                   /\ UNCHANGED reqs
             [] a.platform = "aws" ->
                   /\ lastComplete' =
                          IF S3Has("completeMultipartUpload")
                          THEN outcome(TRUE, NoError)
                          ELSE outcome(FALSE, NotAFunction)
                   /\ UNCHANGED reqs
             [] a.platform = "azure" ->
                   /\ \E r \in ReqIds :
                          /\ FreeSlot(reqs, r)
                          /\ reqs' = [reqs EXCEPT ![r] =
                                 [pc |-> "commitBlockList", uploadId |-> u,
                                  key |-> a.key, parts |-> parts,
                                  blockIds |-> BlockIdsOf(parts)]]
                   /\ lastComplete' = NotCalled
    /\ UNCHANGED <<objects, staged, attempts, nextUpload>>

\* completeAzureBlockUpload, commitBlockList has resolved: the blob is the
\* listed blocks, or the service refused the list and the call throws.
completeAzureBlockUploadDone(r) ==
    /\ UNCHANGED <<redactVars, routeVars, listVars, coordVars, cloudVars>>
    /\ reqs[r].pc = "commitBlockList"
    /\ LET req == reqs[r]
           uncommitted == staged[req.key]
           blob == objects["azure"][req.key]
           committed == IF blob.present THEN blob.blocks ELSE {}
       IN  IF CommitAccepted(uncommitted, committed, req.blockIds)
           THEN LET new == CommittedBlob(uncommitted, committed, req.blockIds)
                IN  /\ objects' = [objects EXCEPT !["azure"][req.key] = new]
                    /\ staged' = [staged EXCEPT ![req.key] = {}]
                    /\ lastComplete' =
                           [called |-> TRUE, uploadId |-> req.uploadId, ok |-> TRUE,
                            error |-> NoError, parts |-> req.parts]
           ELSE /\ lastComplete' =
                       [called |-> TRUE, uploadId |-> req.uploadId, ok |-> FALSE,
                        error |-> InvalidBlockList, parts |-> req.parts]
                /\ UNCHANGED <<objects, staged>>
    /\ reqs' = [reqs EXCEPT ![r] = Idle]
    /\ UNCHANGED <<attempts, nextUpload>>

NextUpload ==
    \/ \E p \in Platforms, k \in Keys, b \in Buffers : uploadFile(p, k, b)
    \/ \E p \in Platforms, k \in Keys, n \in PartCounts :
           initiateMultipartUpload(p, k, n)
    \/ \E u \in UploadIds, pn \in PartNumbers : uploadPart(u, pn)
    \/ \E r \in ReqIds : uploadAzureBlockDone(r)
    \/ \E u \in {v \in UploadIds : Completable(v)} :
           \E parts \in PartLists(attempts[u].platform, u) :
               completeMultipartUpload(u, parts)
    \/ \E r \in ReqIds : completeAzureBlockUploadDone(r)


SpecUpload == Init /\ [][NextUpload]_vars

(***************************************************************************)
(* The routes of routes/redaction.js in front of the service: the          *)
(* express-validator chain runs first, and a request that fails it is      *)
(* answered with status 400 and never reaches the service.                 *)
(***************************************************************************)
\* Rectangles a caller may send besides the ones above: one that reaches
\* beyond the right edge of the page, and one on page 0.
RectWide == [pageNumber |-> 1, x |-> 500 * Scale, y |-> 100 * Scale,
             width |-> 200 * Scale, height |-> 20 * Scale]
RectZero == [pageNumber |-> 0, x |-> 300 * Scale, y |-> 100 * Scale,
             width |-> 150 * Scale, height |-> 20 * Scale]

RouteRedactionLists == {<<RectA>>, <<RectA, RectWide>>, <<RectZero, RectWide>>}

PreviewPages == {0, 1}

\* validateRedaction: the messages for one rectangle, in the order pushed.
validateRedaction(redaction, pageWidth, pageHeight) ==
    LET errors ==
            (IF redaction.pageNumber = 0 \/ redaction.pageNumber < 1
             THEN <<"Invalid page number">> ELSE <<>>)
            \o (IF redaction.x < 0 \/ redaction.x > pageWidth
                THEN <<"X coordinate out of bounds">> ELSE <<>>)
            \o (IF redaction.y < 0 \/ redaction.y > pageHeight
                THEN <<"Y coordinate out of bounds">> ELSE <<>>)
            \o (IF redaction.width <= 0 \/ redaction.x + redaction.width > pageWidth
                THEN <<"Invalid width or extends beyond page">> ELSE <<>>)
            \o (IF redaction.height <= 0 \/ redaction.y + redaction.height > pageHeight
                THEN <<"Invalid height or extends beyond page">> ELSE <<>>)
    IN  [isValid |-> Len(errors) = 0, errors |-> errors]

\* The chain of POST /apply: redactions is an array of at least one entry
\* and every pageNumber is an integer of at least 1.  The coordinates of
\* the model's rectangles are all numbers, which is all the chain asks of
\* x, y, width and height.
ApplyRouteErrors(redactions) ==
    (IF Len(redactions) < 1
     THEN {[index |-> 0, field |-> "redactions", msg |-> "Redactions array is required"]}
     ELSE {})
    \cup {[index |-> i, field |-> "pageNumber",
           msg |-> "Page number must be a positive integer"] :
             i \in {j \in 1..Len(redactions) : redactions[j].pageNumber < 1}}

\* The chain of POST /preview: pageNumber is an integer of at least 1.
PreviewRouteErrors(pageNumber) ==
    IF pageNumber < 1
    THEN {[index |-> 0, field |-> "pageNumber",
           msg |-> "Page number must be a positive integer"]}
    ELSE {}

\* POST /apply up to its first await: the 400 answer, or applyRedactions.
ApplyRoute(c, sid, redactions, color) ==
    LET errors == ApplyRouteErrors(redactions)
    IN  IF errors # {}
        THEN /\ FreeSlot(calls, c)
             /\ lastResponse' = [route |-> "apply", status |-> 400, details |-> errors,
                                 redactions |-> redactions,
                                 before |-> cache, after |-> cache]
             /\ UNCHANGED <<redactVars, uploadVars, listVars, coordVars, cloudVars>>
        ELSE ApplyStart(c, sid, redactions, color)

\* POST /preview with the cache it leaves: the 400 answer, or
\* generatePreview, which looks the session up and answers with a
\* placeholder image or throws.
PreviewStep(sid, pageNumber, redactions, cacheAfter) ==
    LET errors == PreviewRouteErrors(pageNumber)
        found == CacheGet(cache, sid, now).present
    IN  /\ cache' = IF errors # {} THEN cache ELSE cacheAfter
        /\ lastResponse' =
               [route |-> "preview",
                status |-> IF errors # {} THEN 400 ELSE IF found THEN 200 ELSE 500,
                details |-> errors, redactions |-> redactions,
                before |-> cache, after |-> cache']
        /\ lastAccess' = IF errors = {} /\ found
                         THEN [lastAccess EXCEPT ![sid] = now]
                         ELSE lastAccess
        /\ UNCHANGED <<now, ticks, nextSid, calls, lastWrite, deleted, cleaned>>
        /\ UNCHANGED <<uploadVars, listVars, coordVars, cloudVars>>

\* A preview that keeps the rectangles it was sent in the session.
PreviewRouteStoring(sid, pageNumber, redactions) ==
    PreviewStep(sid, pageNumber, redactions,
                IF CacheGet(cache, sid, now).present
                THEN [cache EXCEPT ![sid].v.redactions = redactions]
                ELSE cache)

PreviewRoute(sid, pageNumber, redactions) ==
    PreviewStep(sid, pageNumber, redactions, cache)

NextRoutes ==
    \/ Prepare
    \/ \E c \in CallIds, sid \in Issued, r \in RouteRedactionLists, col \in Colors :
           ApplyRoute(c, sid, r, col)
    \/ \E c \in CallIds : ApplyPaint(c)
    \/ \E c \in CallIds : ApplyFinish(c)
    \/ \E c \in CallIds : Respond(c)
    \/ \E sid \in SessionIds, pn \in PreviewPages, r \in RouteRedactionLists :
           PreviewRoute(sid, pn, r)

SpecRoutes == Init /\ [][NextRoutes]_vars

(***************************************************************************)
(* FileService.listFiles.  One request at a time is followed; the bucket   *)
(* it lists changes under it, as other clients write and delete.           *)
(***************************************************************************)
\* The object names of the listed bucket, in the order a listing returns
\* them.
ListOrder == <<"a.pdf", "notes">>
ListNames == {ListOrder[i] : i \in 1..Len(ListOrder)}

\* What bucket.getFiles, listObjectsV2 and listBlobsFlat return for a set of
\* names.
Listed(names) == SelectSeq(ListOrder, LAMBDA n : n \in names)

\* How file.getMetadata() can end: with the full metadata, with metadata
\* that has no contentType, or rejected.
MetadataOutcomes == {"full", "noContentType", "rejected"}

\* The metadata the provider holds for an object.
Metadata(name, outcome) ==
    [size |-> "12", updated |-> "2024-05-01T00:00:00Z",
     contentType |-> IF outcome = "full" THEN "application/x-stored" ELSE Undefined,
     etag |-> "etag-" \o name, md5Hash |-> "md5-" \o name]

\* parseInt(s) || 0 for the size strings of Metadata.
ParseIntOrZero(s) == IF s = "12" THEN 12 ELSE 0

\* mime.lookup(fileName): the type of the extension, or false.
MimeLookup(fileName) ==
    IF fileName = "a.pdf" THEN [found |-> TRUE, type |-> "application/pdf"]
    ELSE [found |-> FALSE]

\* Lines 654-656: the static FileService.getMimeType.
getMimeType(fileName) ==
    IF MimeLookup(fileName).found THEN MimeLookup(fileName).type
    ELSE "application/octet-stream"

\* The members a FileService instance has: the methods of the class body
\* that are not static (lines 18-650).  getMimeType is declared static, so
\* it is a member of the constructor and not of the instance.
InstanceMethods ==
    {"listFiles", "uploadFile", "deleteFile", "downloadFile",
     "initiateMultipartUpload", "uploadPart", "completeMultipartUpload",
     "listGCPFiles", "listAWSFiles", "listAzureFiles"}

\* this.member(...) on the instance: calling an undefined member throws a
\* TypeError.
ThisHas(member) == member \in InstanceMethods

GetMimeTypeMissing == "TypeError: this.getMimeType is not a function"

\* Lines 205-212: the descriptor built from the metadata, when the content
\* type needs no lookup or the lookup can be called.
Descriptor(name, metadata) ==
    [fileName |-> name,
     size |-> ParseIntOrZero(metadata.size),
     lastModified |-> metadata.updated,
     contentType |-> IF metadata.contentType # Undefined THEN metadata.contentType
                     ELSE getMimeType(name),
     etag |-> metadata.etag,
     md5Hash |-> metadata.md5Hash]

\* Lines 215-222: the descriptor pushed in the catch of a failed metadata
\* fetch.
DefaultedDescriptor(name) ==
    [fileName |-> name, size |-> 0, lastModified |-> "new Date()",
     contentType |-> getMimeType(name), etag |-> "", md5Hash |-> ""]

\* Lines 327-342 and 453-463: the descriptors of the aws and azure listings,
\* taken from the listing itself.
ListedDescriptor(platform, name) ==
    [fileName |-> name, size |-> 12, lastModified |-> "2024-05-01T00:00:00Z",
     contentType |-> IF platform = "aws" THEN "null" ELSE "application/x-stored",
     etag |-> "etag-" \o name]

\* Another client of the bucket writes or deletes an object.
BucketPut(platform, name) ==
    /\ UNCHANGED <<redactVars, uploadVars, routeVars, coordVars, cloudVars>>
    /\ name \notin remote[platform]
    /\ remote' = [remote EXCEPT ![platform] = @ \cup {name}]
    /\ UNCHANGED listing

BucketDelete(platform, name) ==
    /\ UNCHANGED <<redactVars, uploadVars, routeVars, coordVars, cloudVars>>
    /\ name \in remote[platform]
    /\ remote' = [remote EXCEPT ![platform] = @ \ {name}]
    /\ UNCHANGED listing

\* Lines 18-36 with 191-198, 325-342 and 449-465: listFiles up to the end of
\* its first await.  gcp has the files of the bucket and goes on to fetch
\* the metadata of each; aws throws at s3.listObjectsV2; azure returns what
\* listBlobsFlat yields.
listFiles(platform) ==
    /\ UNCHANGED <<redactVars, uploadVars, routeVars, coordVars, cloudVars>>
    /\ listing.pc \in {"idle", "done", "failed"}
    /\ CASE platform = "gcp" ->
               listing' = [pc |-> "metadata", platform |-> "gcp",
                           files |-> Listed(remote["gcp"]),
                           fileList |-> <<>>, rejected |-> {}]
         [] platform = "aws" ->
               IF S3Has("listObjectsV2")
               THEN listing' = [pc |-> "done", platform |-> "aws",
                                files |-> Listed(remote["aws"]),
                                fileList |-> [i \in 1..Len(Listed(remote["aws"])) |->
                                    ListedDescriptor("aws", Listed(remote["aws"])[i])],
                                rejected |-> {}]
               ELSE listing' = [pc |-> "failed", platform |-> "aws",
                                files |-> <<>>, fileList |-> <<>>, rejected |-> {},
                                error |-> "TypeError: s3.listObjectsV2 is not a function"]
         [] platform = "azure" ->
               listing' = [pc |-> "done", platform |-> "azure",
                           files |-> Listed(remote["azure"]),
                           fileList |-> [i \in 1..Len(Listed(remote["azure"])) |->
                               ListedDescriptor("azure", Listed(remote["azure"])[i])],
                           rejected |-> {}]
    /\ UNCHANGED remote

\* Lines 202-223, one turn of the loop: file.getMetadata() has settled.
\* With a content type in the metadata the descriptor is pushed.  Without
\* one, this.getMimeType is called inside the try; after a rejection it is
\* called inside the catch.  Where the instance has no such member the call
\* throws, in the try into the catch and in the catch out of the loop to
\* line 227, which throws 'Failed to list files: ...' (and listFiles
\* rethrows, line 32).
getMetadataDone(outcome) ==
    /\ UNCHANGED <<redactVars, uploadVars, routeVars, coordVars, cloudVars>>
    /\ listing.pc = "metadata"
    /\ Len(listing.fileList) < Len(listing.files)
    /\ LET name == listing.files[Len(listing.fileList) + 1]
           callable == ThisHas("getMimeType")
           rejected == IF outcome = "rejected" THEN listing.rejected \cup {name}
                       ELSE listing.rejected
       IN  IF outcome = "full" \/ (outcome = "noContentType" /\ callable)
           THEN listing' = [listing EXCEPT
                    !.fileList = Append(@, Descriptor(name, Metadata(name, outcome)))]
           ELSE IF callable
           THEN listing' = [listing EXCEPT
                    !.fileList = Append(@, DefaultedDescriptor(name)),
                    !.rejected = rejected]
           ELSE listing' = [pc |-> "failed", platform |-> "gcp",
                            files |-> listing.files, fileList |-> listing.fileList,
                            rejected |-> rejected,
                            error |-> "Failed to list files: " \o GetMimeTypeMissing]
    /\ UNCHANGED remote

\* Line 226: the loop is over and the list is returned.
listGCPFilesReturn ==
    /\ UNCHANGED <<redactVars, uploadVars, routeVars, coordVars, cloudVars>>
    /\ listing.pc = "metadata"
    /\ Len(listing.fileList) = Len(listing.files)
    /\ listing' = [listing EXCEPT !.pc = "done"]
    /\ UNCHANGED remote

NextList ==
    \/ \E p \in Platforms, n \in ListNames : BucketPut(p, n)
    \/ \E p \in Platforms, n \in ListNames : BucketDelete(p, n)
    \/ \E p \in Platforms : listFiles(p)
    \/ \E o \in MetadataOutcomes : getMetadataDone(o)
    \/ listGCPFilesReturn

SpecList == Init /\ [][NextList]_vars

(***************************************************************************)
(* convertCoordinate on its own, over the fractions 0.00 .. 1.00, absolute *)
(* values from just above 1.0 to the page size, and a negative value.      *)
(***************************************************************************)
Fractions == 0..Scale
AbsoluteValues == {Scale + 1, 2 * Scale, 150 * Scale, 300 * Scale, 600 * Scale,
                   800 * Scale}
CoordinateValues == Fractions \cup AbsoluteValues \cup {0 - Scale}
PageDimensions == {PageSize.width, PageSize.height}

\* Lines 176-179: this.convertCoordinate(redaction.x, pageWidth) and its
\* like.
ResolveCoordinate(value, maxValue) ==
    /\ UNCHANGED <<redactVars, uploadVars, routeVars, listVars, cloudVars>>
    /\ resolved' = [called |-> TRUE, value |-> value, maxValue |-> maxValue,
                    result |-> convertCoordinate(value, maxValue)]

NextCoord ==
    \E v \in CoordinateValues, m \in PageDimensions : ResolveCoordinate(v, m)

SpecCoord == Init /\ [][NextCoord]_vars

(***************************************************************************)
(* The start of the server and the calls of FileService, each call as one  *)
(* step from the request to its answer.                                    *)
(***************************************************************************)
\* Lines 110-123, called once when the server starts (server.js 325-330),
\* with the environment the process was given.  initialize has no throw
\* outside its try, so it returns.
initialize(e) ==
    /\ UNCHANGED <<redactVars, uploadVars, routeVars, listVars, coordVars>>
    /\ started = "no"
    /\ env' = e
    /\ clients' = InitializedClients(e)
    /\ started' = "returned"
    /\ UNCHANGED lastCall

\* The platform names a FileService is made with: the three the service
\* knows and one it does not.
PlatformIds == Platforms \cup {"ibm"}

\* How the provider's SDK ends a call that reaches it.
SdkOutcomes == {"resolves", "rejects"}

\* The buffers of the calls, and the part lists sent to complete: the part
\* lists of upload 1.
CallBuffers == Buffers \cup {<<"z">>}
CallUploadId == 1
CallPartLists ==
    {parts \in PartLists("azure", CallUploadId) :
        \A i, j \in 1..Len(parts) : parts[i].partNumber = parts[j].partNumber => i = j}

\* What the calls throw.
UnsupportedPlatform(platform) ==
    [name |-> "Error", message |-> "Unsupported platform: " \o platform]
NotInitialized(platform) ==
    [name |-> "Error",
     message |-> CASE platform = "gcp" ->
                        "GCP Storage not initialized. Please configure GCP credentials."
                   [] platform = "aws" ->
                        "AWS S3 not initialized. Please configure AWS credentials."
                   [] platform = "azure" ->
                        "Azure Blob Storage not initialized. Please configure Azure credentials."]
S3NotAFunction(method) ==
    [name |-> "TypeError", message |-> "s3." \o method \o " is not a function"]
\* The error the provider's SDK rejects with.
SdkError == [name |-> "SdkError", message |-> "the request to the provider failed"]

\* The provider methods that ask the CloudServiceManager for the client
\* (getGCPStorage, getAWSS3, getAzureBlob): all but uploadGCPChunk,
\* completeGCPResumableUpload and initiateAzureBlockUpload.
LooksUpClient(op, platform) ==
    ~ \/ platform = "gcp" /\ op \in {"uploadPart", "completeMultipartUpload"}
      \/ platform = "azure" /\ op = "initiateMultipartUpload"

\* The member of the S3 client each aws method calls.
S3MethodOf(op) ==
    CASE op = "uploadFile" -> "upload"
      [] op = "deleteFile" -> "deleteObject"
      [] op = "downloadFile" -> "getObject"
      [] op = "generateShareLink" -> "getSignedUrl"
      [] op = "initiateMultipartUpload" -> "createMultipartUpload"
      [] op = "uploadPart" -> "uploadPart"
      [] op = "completeMultipartUpload" -> "completeMultipartUpload"

\* The provider methods that call the provider's SDK: on gcp the single-shot
\* ones (the resumable ones are stubs), on azure all but initiate.
CallsSdk(op, platform) ==
    CASE platform = "gcp" ->
             op \in {"uploadFile", "deleteFile", "downloadFile", "generateShareLink"}
      [] platform = "aws" -> TRUE
      [] platform = "azure" -> op # "initiateMultipartUpload"

\* The provider refuses a delete or a download of an object it does not
\* hold, and a block list that names a block it does not hold.
SdkRefuses(op, platform, key, parts) ==
    \/ op \in {"deleteFile", "downloadFile"} /\ ~objects[platform][key].present
    \/ /\ op = "completeMultipartUpload"
       /\ platform = "azure"
       /\ ~CommitAccepted(staged[key],
                          IF objects["azure"][key].present
                          THEN objects["azure"][key].blocks ELSE {},
                          BlockIdsOf(parts))

\* The chunks a download stream delivers, and streamToBuffer (lines
\* 556-567), which puts them together again.
Chunks(content) == [i \in 1..Len(content) |-> <<content[i]>>]
streamToBuffer(chunks) == Flatten(chunks)

\* The buffer a download answers with: file.download() and result.Body
\* give the bytes, azure's download gives a stream.
Downloaded(platform, object) ==
    IF platform = "azure" THEN streamToBuffer(Chunks(Content(object)))
    ELSE Content(object)

\* What a call that succeeds answers with.
Answer(op, platform, key, partNumber) ==
    CASE op = "downloadFile" -> [buffer |-> Downloaded(platform, objects[platform][key])]
      [] op = "generateShareLink" -> [url |-> <<platform, key>>]
      [] op = "initiateMultipartUpload" -> [uploadId |-> CallUploadId]
      [] op = "uploadPart" -> [etag |-> PartToken(platform, CallUploadId, partNumber)]
      [] OTHER -> [success |-> TRUE]

\* The provider's store after a call that succeeded.
ObjectsAfter(op, platform, key, buffer, parts) ==
    CASE op = "uploadFile" -> [objects EXCEPT ![platform][key] = Blob(buffer)]
      [] op = "deleteFile" -> [objects EXCEPT ![platform][key] = NoObject]
      [] op = "completeMultipartUpload" /\ platform = "azure" ->
             [objects EXCEPT !["azure"][key] =
                 CommittedBlob(staged[key],
                               IF objects["azure"][key].present
                               THEN objects["azure"][key].blocks ELSE {},
                               BlockIdsOf(parts))]
      [] OTHER -> objects

StagedAfter(op, platform, key, buffer, partNumber) ==
    IF platform # "azure" THEN staged
    ELSE CASE op \in {"uploadFile", "deleteFile", "completeMultipartUpload"} ->
                  [staged EXCEPT ![key] = {}]
           [] op = "uploadPart" ->
                  [staged EXCEPT ![key] = StageBlock(@, BlockId(partNumber), buffer)]
           [] OTHER -> staged

\* One call of a FileService made for the platform (lines 10-13), from the
\* dispatching method (lines 39-188: the switch on this.platform, and the
\* catch that logs and rethrows the error as it is) through the provider
\* method to the answer.  The call throws for a platform it does not know,
\* for a client that was not initialised where the provider method asks for
\* it, for a member the S3 client does not have, and when the SDK rejects.
FileServiceCall(op, platform, key, buffer, partNumber, parts, sdk) ==
    /\ UNCHANGED <<redactVars, routeVars, listVars, coordVars>>
    /\ started = "returned"
    /\ LET call == [op |-> op, platform |-> platform, key |-> key,
                    buffer |-> buffer, partNumber |-> partNumber, parts |-> parts]
           thrown(error, reached) ==
               /\ lastCall' = call @@
                      [ok |-> FALSE, error |-> error, sdkRejected |-> reached]
               /\ UNCHANGED <<objects, staged>>
       IN  IF platform \notin Platforms
           THEN thrown(UnsupportedPlatform(platform), FALSE)
           ELSE IF LooksUpClient(op, platform) /\ ~clients[platform]
           THEN thrown(NotInitialized(platform), FALSE)
           ELSE IF platform = "aws" /\ ~S3Has(S3MethodOf(op))
           THEN thrown(S3NotAFunction(S3MethodOf(op)), FALSE)
           ELSE IF CallsSdk(op, platform)
                   /\ (sdk = "rejects" \/ SdkRefuses(op, platform, key, parts))
           THEN thrown(SdkError, TRUE)
           ELSE /\ lastCall' = call @@
                       [ok |-> TRUE, answer |-> Answer(op, platform, key, partNumber),
                        sdkRejected |-> FALSE]
                /\ objects' = ObjectsAfter(op, platform, key, buffer, parts)
                /\ staged' = StagedAfter(op, platform, key, buffer, partNumber)
    /\ UNCHANGED <<attempts, nextUpload, reqs, lastComplete>>
    /\ UNCHANGED <<env, clients, started>>

\* The arguments a call of each method takes; the others are left out.
NoBuffer == <<>>
NoParts == <<>>
NoPartNumber == 0

NextCloud ==
    \/ \E e \in Environments : initialize(e)
    \/ \E p \in PlatformIds, k \in Keys, b \in CallBuffers, sdk \in SdkOutcomes :
           FileServiceCall("uploadFile", p, k, b, NoPartNumber, NoParts, sdk)
    \/ \E op \in {"deleteFile", "downloadFile", "generateShareLink",
                   "initiateMultipartUpload"} :
           \E p \in PlatformIds, k \in Keys, sdk \in SdkOutcomes :
               FileServiceCall(op, p, k, NoBuffer, NoPartNumber, NoParts, sdk)
    \/ \E p \in PlatformIds, k \in Keys, pn \in PartNumbers, sdk \in SdkOutcomes :
           FileServiceCall("uploadPart", p, k, PartBytes(CallUploadId, pn), pn,
                           NoParts, sdk)
    \/ \E p \in PlatformIds, k \in Keys, parts \in CallPartLists, sdk \in SdkOutcomes :
           FileServiceCall("completeMultipartUpload", p, k, NoBuffer, NoPartNumber,
                           parts, sdk)

SpecCloud == Init /\ [][NextCloud]_vars

(***************************************************************************)
(* The whole service.  The subsystems share no state.                      *)
(***************************************************************************)
Next == NextRedact \/ NextUpload \/ NextRoutes \/ NextList \/ NextCoord \/ NextCloud
Spec == Init /\ [][Next]_vars

(***************************************************************************)
(* Properties of the redaction sessions.                                   *)
(***************************************************************************)
OneHour == 60 * 60
FiftyNineMinutes == 59 * 60

\* An apply between its lookup and its write-back.
InFlightApply(c) == calls[c].pc \in {"load", "save"}
\* A cleanup between its delete and its return.
InFlightCleanup(c) == calls[c].pc = "rmdir"
\* An apply that has returned its result.
ReturnedApply(c) == calls[c].pc = "done" /\ calls[c].op = "apply"
\* An apply that has just done its lookup, or failed at it.
LookedUp(c) ==
    \/ calls[c].pc = "load"
    \/ calls[c].pc = "failed" /\ calls[c].error = NotFoundOrExpired
Found(c) == calls[c].pc = "load"

\* The rectangles a whole redaction list draws, in order.
RECURSIVE DrawnList(_, _)
DrawnList(redactions, color) ==
    IF redactions = <<>> THEN <<>>
    ELSE <<DrawnRect(Head(redactions), color)>> \o DrawnList(Tail(redactions), color)

\* C1: at most one apply is in flight per session at any time.
C1_ApplySerialized ==
    \A c, d \in CallIds :
        InFlightApply(c) /\ InFlightApply(d) /\ calls[c].sid = calls[d].sid => c = d

\* C2: every document an apply returns is the session's original document
\* with the complete rectangle list of that one call drawn on it, nothing
\* more and nothing less, however the applies on the session overlap.
C2_NoHalfAppliedDocument ==
    \A c \in CallIds :
        ReturnedApply(c) =>
            LET redacted == PDFLoad(calls[c].result.redactedPdf)
                original == PDFLoad(calls[c].result.original)
            IN  /\ redacted.drawn = DrawnList(calls[c].redactions, calls[c].color)
                /\ redacted.pageCount = original.pageCount
                /\ original.drawn = <<>>

\* C2's case: an apply has returned while another apply on the same session,
\* with another rectangle list, is in flight and looked the session up
\* before the first one wrote it back.
C2_Witness ==
    \E c, d \in CallIds :
        /\ ReturnedApply(c)
        /\ calls[d].pc = "save"
        /\ calls[d].sid = calls[c].sid
        /\ calls[d].redactions # calls[c].redactions
        /\ cache[calls[c].sid].present
        /\ cache[calls[c].sid].v.redactions = calls[c].redactions
        /\ calls[d].sessionData.redactions = <<>>

\* The applies on session sid that return successfully in the step: they go
\* from awaiting save to done (lines 132-153).
Succeeding(sid) ==
    {c \in CallIds : /\ calls[c].pc = "save"
                     /\ calls[c].sid = sid
                     /\ calls'[c].pc = "done"}

\* C18: every successful apply leaves the session's stored redaction list
\* equal to exactly the rectangles of that call, whatever list was stored
\* before, and stamps redactedAt with the time of the call; no other
\* operation changes the list or the stamp of a stored session.  So, after
\* any sequence of operations, the stored list is the list of the most
\* recent successful apply.
C18_StoredListIsLatestApply ==
    [][\A sid \in SessionIds :
          IF Succeeding(sid) # {}
          THEN \E c \in Succeeding(sid) :
                  /\ cache'[sid].present
                  /\ cache'[sid].v.redactions = calls[c].redactions
                  /\ cache'[sid].v.redactedAt = now
          ELSE cache[sid].present /\ cache'[sid].present =>
                  /\ cache'[sid].v.redactions = cache[sid].v.redactions
                  /\ cache'[sid].v.redactedAt = cache[sid].v.redactedAt]_vars

\* C18's case: two applies with different rectangle lists have succeeded on
\* one session, the second after the first had stamped it, and the session
\* holds the list of the second alone.
C18_Witness ==
    \E c, d \in CallIds :
        /\ ReturnedApply(c) /\ ReturnedApply(d)
        /\ calls[c].sid = calls[d].sid
        /\ calls[c].redactions # calls[d].redactions
        /\ cache[calls[d].sid].present
        /\ cache[calls[d].sid].v.redactions = calls[d].redactions
        /\ cache[calls[d].sid].v.redactedAt = lastWrite[calls[d].sid]
        /\ cache[calls[d].sid].v.redactedAt > 0

\* C6: an apply and a cleanup of one session never overlap.
C6_ApplyCleanupExclusive ==
    \A c, d \in CallIds :
        ~(InFlightApply(c) /\ InFlightCleanup(d) /\ calls[c].sid = calls[d].sid)

\* C7: once a cleanup of a session has returned, no lookup of that session
\* finds it again.
C7_CleanedStaysUnreachable ==
    \A sid \in cleaned : ~CacheGet(cache, sid, now).present

\* C8: an apply whose session had been untouched for more than an hour at
\* its lookup fails with "not found or expired".
C8_IdleOverAnHourFails ==
    \A c \in CallIds :
        LookedUp(c) /\ calls[c].seen.idle > OneHour => ~Found(c)

C8_Witness ==
    \E c \in CallIds :
        /\ LookedUp(c)
        /\ calls[c].seen.idle > OneHour
        /\ ~calls[c].seen.deleted
        /\ calls[c].pc = "failed"

NumbersOf(parts) == [i \in 1..Len(parts) |-> parts[i].partNumber]

StrictlyAscending(numbers) ==
    \A i, j \in 1..Len(numbers) : i < j => numbers[i] < numbers[j]

NoDuplicates(numbers) ==
    \A i, j \in 1..Len(numbers) : numbers[i] = numbers[j] => i = j

\* The part list of a whole payload: every part once, ascending, with the
\* token uploadPart acknowledged it with.
WholeList(u) ==
    [i \in 1..Len(attempts[u].payload) |->
        [partNumber |-> i, etag |-> PartToken(attempts[u].platform, u, i)]]

\* C3: no complete awaits its provider call while an uploadPart of the same
\* upload id awaits its own.
C3_NoCompleteDuringUploadPart ==
    \A r, q \in ReqIds :
        ~(/\ reqs[r].pc = "stageBlock"
          /\ reqs[q].pc = "commitBlockList"
          /\ reqs[r].uploadId = reqs[q].uploadId)

\* C4: every part list handed to a provider's commit is in ascending
\* partNumber order.
C4_PartsPassedAscending ==
    \A r \in ReqIds :
        reqs[r].pc = "commitBlockList" => StrictlyAscending(NumbersOf(reqs[r].parts))

\* C5: a complete that succeeds names only parts that uploadPart has
\* acknowledged for its upload id, and none of them twice.
C5_CompleteOnlyAckedPartsOnce ==
    lastComplete.called /\ lastComplete.ok =>
        /\ \A i \in 1..Len(lastComplete.parts) :
               lastComplete.parts[i].partNumber
                   \in AckedNumbers(attempts[lastComplete.uploadId])
        /\ NoDuplicates(NumbersOf(lastComplete.parts))

\* C10: on aws and azure the multipart protocol yields the object a
\* single-shot upload yields: no call of the protocol throws, and when
\* complete returns for an upload all of whose parts were acknowledged and
\* whose part list is the whole payload in ascending order, the key holds
\* what a single-shot upload of the payload leaves there.
C10_MultipartEquivalence ==
    /\ \A u \in UploadIds :
           attempts[u].status = "failed" => attempts[u].platform \notin {"aws", "azure"}
    /\ lastComplete.called =>
           LET u == lastComplete.uploadId
               a == attempts[u]
           IN  /\ a.platform \in {"aws", "azure"}
               /\ lastComplete.parts = WholeList(u)
               /\ AckedNumbers(a) = 1..Len(a.payload)
               => Content(objects[a.platform][a.key]) = Flatten(a.payload)

\* Upload u is the only multipart upload on its platform and key.
Alone(u) ==
    \A v \in UploadIds \ {u} :
        attempts[v].status # "none" =>
            attempts[v].platform # attempts[u].platform \/ attempts[v].key # attempts[u].key

\* What the parts of a payload leave staged on a fresh blob when they are
\* uploaded in order, first to last.
RECURSIVE StagedInOrder(_, _)
StagedInOrder(payload, n) ==
    IF n = 0 THEN {}
    ELSE StageBlock(StagedInOrder(payload, n - 1), BlockId(n), payload[n])

\* The object an in-order upload of the payload followed by a complete with
\* the ascending part list makes.
InOrderObject(payload) ==
    CommittedBlob(StagedInOrder(payload, Len(payload)), {},
                  [i \in 1..Len(payload) |-> BlockId(i)])

\* A complete with the whole ascending part list has just succeeded for an
\* upload that is alone on its key and has all its parts acknowledged.
CompletedAscending(u) ==
    /\ lastComplete.called
    /\ lastComplete.ok
    /\ lastComplete.uploadId = u
    /\ attempts[u].platform \in {"aws", "azure"}
    /\ Alone(u)
    /\ lastComplete.parts = WholeList(u)
    /\ AckedNumbers(attempts[u]) = 1..Len(attempts[u].payload)

\* C11: in whatever order the parts of an upload were uploaded, a complete
\* with the ascending part list leaves the object that uploading the parts
\* in order leaves.
C11_PartOrderInvariance ==
    \A u \in UploadIds :
        CompletedAscending(u) =>
            Content(objects[attempts[u].platform][attempts[u].key])
                = Content(InOrderObject(attempts[u].payload))

\* C11's case: the parts went up last to first and the complete succeeded.
C11_Witness ==
    \E u \in UploadIds :
        /\ CompletedAscending(u)
        /\ Len(attempts[u].payload) = MaxParts
        /\ attempts[u].order = [i \in 1..MaxParts |-> MaxParts + 1 - i]

\* C12: on gcp, whenever complete reports success the key holds an object.
C12_GcpCompleteWritesObject ==
    lastComplete.called /\ lastComplete.ok =>
        LET a == attempts[lastComplete.uploadId]
        IN  a.platform = "gcp" => objects["gcp"][a.key].present

\* The tags uploadPart has returned for the parts of an upload.
IssuedTags(u) == attempts[u].acked

\* A part list with an entry whose tag uploadPart has not returned for that
\* part of the upload.
HasMismatchedTag(u, parts) ==
    \E i \in 1..Len(parts) :
        [partNumber |-> parts[i].partNumber, etag |-> parts[i].etag] \notin IssuedTags(u)

\* C13: on aws, a complete whose part list has a missing or mismatched tag
\* is refused by the check of the part list and commits no object.
C13_AwsMismatchedTagRefused ==
    lastComplete.called =>
        LET u == lastComplete.uploadId
            a == attempts[u]
        IN  a.platform = "aws" /\ HasMismatchedTag(u, lastComplete.parts)
            => /\ ~lastComplete.ok
               /\ lastComplete.error = "InvalidPartListError"
               /\ ~objects["aws"][a.key].present

\* The tokens of a part list, in the order of the list.
TokensOf(parts) == [i \in 1..Len(parts) |-> parts[i].etag]

\* C14: on azure, complete hands commitBlockList the tokens of the caller's
\* part list, and the blob it commits consists of the blocks of exactly
\* those tokens.
C14_AzureCommitsSuppliedTokens ==
    /\ \A r \in ReqIds :
           reqs[r].pc = "commitBlockList" => reqs[r].blockIds = TokensOf(reqs[r].parts)
    /\ lastComplete.called /\ lastComplete.ok =>
           LET a == attempts[lastComplete.uploadId]
               tokens == TokensOf(lastComplete.parts)
           IN  a.platform = "azure" =>
                   {b.id : b \in objects["azure"][a.key].blocks}
                       = {tokens[i] : i \in 1..Len(tokens)}

\* C14's case: a complete succeeded whose list carries a token that is not
\* the one its part number gives.
C14_Witness ==
    /\ lastComplete.called
    /\ lastComplete.ok
    /\ attempts[lastComplete.uploadId].platform = "azure"
    /\ \E i \in 1..Len(lastComplete.parts) :
           lastComplete.parts[i].etag # BlockId(lastComplete.parts[i].partNumber)

(***************************************************************************)
(* Properties of the validation of rectangles and of the preview.          *)
(***************************************************************************)
\* A list with a rectangle validateRedaction finds a fault with.
HasInvalid(redactions) ==
    \E i \in 1..Len(redactions) :
        ~validateRedaction(redactions[i], PageSize.width, PageSize.height).isValid

\* An apply that has painted its rectangles.
Painted(c) == calls[c].op = "apply" /\ calls[c].pc \in {"save", "done"}

\* C15: an apply whose list holds an invalid rectangle never paints and
\* never writes the session back.
C15_InvalidCallPaintsNothing ==
    \A c \in CallIds :
        calls[c].pc # "idle" /\ calls[c].op = "apply" /\ HasInvalid(calls[c].redactions)
            => ~Painted(c)

\* The rectangles of a list an answer has a violation for.
Reported(details) == {d.index : d \in details}

\* C16: the answer to an apply with invalid rectangles names a violation
\* for every invalid rectangle of the list, not only for the first.
C16_AllViolationsReturned ==
    lastResponse.route = "apply" /\ lastResponse.status = 400 =>
        \A i \in 1..Len(lastResponse.redactions) :
            ~validateRedaction(lastResponse.redactions[i],
                               PageSize.width, PageSize.height).isValid
                => i \in Reported(lastResponse.details)

\* C17: every rectangle an apply has drawn lies within its page: its right
\* edge is at most the page width and its far edge at most the page height.
C17_PaintedWithinPage ==
    \A c \in CallIds :
        calls[c].pc = "save" =>
            \A i \in 1..Len(calls[c].pdfDoc.drawn) :
                LET d == calls[c].pdfDoc.drawn[i]
                    y == PageSize.height - d.y - d.height
                IN  /\ d.x + d.width <= PageSize.width
                    /\ y + d.height <= PageSize.height

\* C19: a preview, whether it is answered 200, 400 or 500, leaves the cache
\* as it found it.
C19_PreviewMutatesNothing ==
    lastResponse.route = "preview" => lastResponse.after = lastResponse.before

\* C19's case: a preview of another rectangle list was answered 200 for a
\* session that holds the list of an earlier apply.
C19_Witness ==
    /\ lastResponse.route = "preview"
    /\ lastResponse.status = 200
    /\ \E sid \in SessionIds :
           /\ lastResponse.before[sid].present
           /\ lastResponse.before[sid].v.redactions # <<>>
           /\ lastResponse.before[sid].v.redactions # lastResponse.redactions

(***************************************************************************)
(* Properties of the listing.                                              *)
(***************************************************************************)
\* A gcp listing has ended, with a list or with an error, and the metadata
\* of at least one of its files could not be fetched.
EndedWithRejection ==
    /\ listing.pc \in {"done", "failed"}
    /\ listing.platform = "gcp"
    /\ listing.rejected # {}

\* C20: a listing does not abort when the metadata of one entry cannot be
\* fetched: it returns one descriptor for every listed object, in the order
\* listed, and the descriptor of an entry whose metadata could not be
\* fetched has zeroed and defaulted fields.
C20_ListSurvivesMetadataFailure ==
    EndedWithRejection =>
        /\ listing.pc = "done"
        /\ Len(listing.fileList) = Len(listing.files)
        /\ \A i \in 1..Len(listing.fileList) :
               /\ listing.fileList[i].fileName = listing.files[i]
               /\ listing.files[i] \in listing.rejected =>
                      /\ listing.fileList[i].size = 0
                      /\ listing.fileList[i].etag = ""
                      /\ listing.fileList[i].md5Hash = ""

(***************************************************************************)
(* Properties of a failing apply and of the document an apply starts from. *)
(***************************************************************************)
\* The apply in slot c fails in the step.
Failing(c) ==
    /\ calls[c].pc # "failed"
    /\ calls'[c].pc = "failed"
    /\ calls'[c].op = "apply"

\* C28: an apply that fails is all-or-nothing: the step in which it fails
\* leaves every session of the store as it was (document bytes, redaction
\* list and redactedAt), and the failed call carries no redacted document,
\* whether or not rectangles earlier in its list were painted.
C28_FailedApplyChangesNothing ==
    [][\A c \in CallIds :
          Failing(c) => /\ cache' = cache
                        /\ "result" \notin DOMAIN calls'[c]]_vars

\* C28's case: an apply whose first rectangle is on a page the document has
\* and whose second is not has failed, on a session that an earlier apply
\* had stamped.
C28_Witness ==
    \E c \in CallIds :
        /\ calls[c].pc = "failed" /\ calls[c].op = "apply"
        /\ calls[c].error = "Page not found"
        /\ calls[c].redactions = <<RectB, RectC>>
        /\ cache[calls[c].sid].present
        /\ HasPage(PDFLoad(cache[calls[c].sid].v.pdfBuffer), RectB.pageNumber)
        /\ ~HasPage(PDFLoad(cache[calls[c].sid].v.pdfBuffer), RectC.pageNumber)
        /\ cache[calls[c].sid].v.redactions = <<RectA>>

\* The applies that have returned on session sid.
ReturnedOn(sid) == {c \in CallIds : ReturnedApply(c) /\ calls[c].sid = sid}

\* C29: every apply starts from the session's original bytes: the bytes it
\* reports as the original are a document of the bucket with nothing drawn
\* on it, the same for every apply that has returned on the session and the
\* same as the session still holds, and the document it returns has as many
\* rectangles drawn as the call sent and all of them from that call.
C29_ApplyStartsFromOriginal ==
    \A sid \in SessionIds :
        \A c \in ReturnedOn(sid) :
            /\ calls[c].result.original \in Documents
            /\ \A d \in ReturnedOn(sid) :
                   calls[d].result.original = calls[c].result.original
            /\ cache[sid].present =>
                   cache[sid].v.pdfBuffer = calls[c].result.original
            /\ Len(PDFLoad(calls[c].result.redactedPdf).drawn) = Len(calls[c].redactions)
            /\ \A i \in 1..Len(calls[c].redactions) :
                   PDFLoad(calls[c].result.redactedPdf).drawn[i]
                       = DrawnRect(calls[c].redactions[i], calls[c].color)

\* C29's case: two applies with different lists have returned on one
\* session, some time after it was prepared, and the session holds the list
\* of the one that returned last.
C29_Witness ==
    \E c, d \in CallIds :
        /\ c # d
        /\ ReturnedApply(c) /\ ReturnedApply(d)
        /\ d \in ReturnedOn(calls[c].sid)
        /\ calls[c].redactions = <<RectA>>
        /\ calls[d].redactions = <<RectA, RectB>>
        /\ cache[calls[d].sid].present
        /\ cache[calls[d].sid].v.redactions = calls[d].redactions
        /\ cache[calls[d].sid].v.redactedAt > cache[calls[d].sid].v.createdAt

(***************************************************************************)
(* Properties of convertCoordinate.                                        *)
(***************************************************************************)
\* C24: coordinate duality.  A value in [0, 1] resolves to that fraction of
\* the page dimension and a value above 1 resolves to itself; 0.5 and 0.25
\* of a 600 pt width resolve to 300 and 150, and 300 and 150 resolve to
\* themselves.
C24_CoordinateDuality ==
    resolved.called =>
        /\ resolved.value \in Fractions =>
               resolved.result * Scale = resolved.value * resolved.maxValue
        /\ resolved.value > Scale => resolved.result = resolved.value
        /\ resolved.maxValue = 600 * Scale =>
               /\ resolved.value = Scale \div 2 => resolved.result = 300 * Scale
               /\ resolved.value = Scale \div 4 => resolved.result = 150 * Scale
               /\ resolved.value = 300 * Scale => resolved.result = 300 * Scale
               /\ resolved.value = 150 * Scale => resolved.result = 150 * Scale

\* C24's case: 0.5 of a 600 pt width has been resolved, to 300.
C24_Witness ==
    /\ resolved.called
    /\ resolved.value = Scale \div 2
    /\ resolved.maxValue = 600 * Scale
    /\ resolved.result = 300 * Scale

(***************************************************************************)
(* Properties of prepare.                                                  *)
(***************************************************************************)
\* C23: a prepare pointed at bytes that are not a valid document fails with
\* the decode error, and leaves no session in the store: the store is as it
\* was before the call.
C23_FailedPrepareStoresNothing ==
    lastResponse.route = "prepare" /\ ~IsPDF(lastResponse.buffer) =>
        /\ lastResponse.status = 500
        /\ lastResponse.message = DecodeError
        /\ lastResponse.after = lastResponse.before

\* C23's case: a prepare of a file that is not a PDF has been answered.
C23_Witness ==
    /\ lastResponse.route = "prepare"
    /\ lastResponse.buffer = NotAPdf
    /\ lastResponse.status = 500
    /\ \A sid \in SessionIds : ~cache[sid].present

(***************************************************************************)
(* Properties of upload ids.                                               *)
(***************************************************************************)
\* The uploads whose parts the bytes of an object come from.
UploadsIn(object) ==
    {Content(object)[i].upload : i \in 1..Len(Content(object))}

\* C26: uploads with different upload ids are isolated: the object a
\* complete has just committed for one upload id, from parts that were
\* acknowledged to that upload, is made of parts of that upload only, also
\* when another upload has the same bucket and key.
C26_UploadsIsolated ==
    lastComplete.called /\ lastComplete.ok
        /\ attempts[lastComplete.uploadId].platform = "azure"
        /\ (\A i \in 1..Len(lastComplete.parts) :
               lastComplete.parts[i] \in attempts[lastComplete.uploadId].acked) =>
            UploadsIn(objects["azure"][attempts[lastComplete.uploadId].key])
                \subseteq {lastComplete.uploadId}

\* A step in which the provider accepts something for upload u: a part is
\* acknowledged, a provider call of u is sent, or a complete of u succeeds.
AcceptedFor(u) ==
    \/ attempts'[u].acked # attempts[u].acked
    \/ \E r \in ReqIds : /\ reqs[r].pc = "idle"
                          /\ reqs'[r].pc \in {"stageBlock", "commitBlockList"}
                          /\ reqs'[r].uploadId = u
    \/ /\ lastComplete' # lastComplete
       /\ lastComplete'.called
       /\ lastComplete'.ok
       /\ lastComplete'.uploadId = u

\* C27: an upload is single-use: when a complete has just succeeded for an
\* upload id, the next request does not get a part or a complete accepted
\* for that id (so it cannot change the committed object).
C27_CompletedUploadIsSingleUse ==
    [][lastComplete.called /\ lastComplete.ok =>
          ~AcceptedFor(lastComplete.uploadId)]_vars

(***************************************************************************)
(* Properties of the start of the server.                                  *)
(***************************************************************************)
\* C30: initialize never throws, and a failure while one provider is
\* initialised does not keep the others from being initialised: when it
\* has run, every provider whose credentials are present and well-formed
\* has its client.
C30_PartialAvailability ==
    /\ started # "threw"
    /\ started = "returned" =>
           \A p \in Platforms : env[p] = "valid" => clients[p]

(***************************************************************************)
(* Properties of the calls of FileService.                                 *)
(***************************************************************************)
Called == lastCall.op # "none"

\* C21: a failure of the provider's SDK during a call is never swallowed:
\* the call does not answer success, and what it throws is an
\* UpstreamProviderError that names the provider and the operation and
\* carries the SDK's error as its cause.
C21_AdapterFailuresWrapped ==
    Called /\ lastCall.sdkRejected =>
        /\ ~lastCall.ok
        /\ lastCall.error.name = "UpstreamProviderError"
        /\ lastCall.error.provider = lastCall.platform
        /\ lastCall.error.operation = lastCall.op
        /\ lastCall.error.cause = SdkError

\* C22: a call goes on only for one of the three platforms and with that
\* platform's client configured: for another platform name it throws the
\* unsupported-platform error, and for a platform whose credentials were
\* never supplied it throws the not-initialised error; it answers success
\* in neither case.
C22_ProviderCheckedBeforeCall ==
    Called =>
        /\ lastCall.platform \notin Platforms =>
               ~lastCall.ok /\ lastCall.error = UnsupportedPlatform(lastCall.platform)
        /\ lastCall.platform \in Platforms /\ env[lastCall.platform] = "absent" =>
               ~lastCall.ok /\ lastCall.error = NotInitialized(lastCall.platform)

\* C25: round trip.  On every platform whose client is there, an upload
\* that the provider does not reject succeeds and a download of the key
\* then gives the uploaded bytes; and a download that succeeds gives the
\* bytes the provider holds.
C25_RoundTrip ==
    /\ Called /\ lastCall.op = "uploadFile" /\ lastCall.platform \in Platforms
           /\ clients[lastCall.platform] /\ ~lastCall.sdkRejected =>
               /\ lastCall.ok
               /\ Downloaded(lastCall.platform,
                             objects[lastCall.platform][lastCall.key]) = lastCall.buffer
    /\ Called /\ lastCall.op = "downloadFile" /\ lastCall.ok =>
           lastCall.answer.buffer = Content(objects[lastCall.platform][lastCall.key])

====
